---- MODULE Spec2Model ----
(***************************************************************************)
(* Model of the VerificationAPI Flask application (src/api.py): the        *)
(* in-memory store `verifications`, the API-key gate, and the POST, GET    *)
(* and DELETE handlers of /api/verification.                               *)
(*                                                                         *)
(* Python strings that the code computes on (usernames, timeToVerify) are  *)
(* sequences of one-character strings, so that str.lower, str.replace,     *)
(* float() and datetime.fromisoformat are computed, not looked up.         *)
(* Strings the code only copies and compares (ids, the API key, messages)  *)
(* are TLA+ strings.  An optional value (a header that may be absent) is a *)
(* sequence of length 0 (None) or 1.                                       *)
(***************************************************************************)
EXTENDS Integers, Sequences, FiniteSets, TLC

VARIABLES
    verifications,  \* api.py:13, the store: normalized key -> record
    now,            \* the wall clock datetime.now() reads, in epoch seconds
    req,            \* log: the last event (a handled request, or a clock tick)
    resp,           \* log: the response to it, [status, json]
    before,         \* log: the store as it was when that request arrived
    touched,        \* log: how many times its handling accessed the store
    pc,             \* per worker thread: "idle", or the line of api.py it is about to run
    handling,       \* per worker thread: the request it is handling
    locals,         \* per worker thread: the handler's local `verification`
    replies,        \* per worker thread: the response it sent last
    table,          \* database.py:64, the rows of the MySQL table `verifications`
    call            \* the last store call made on both backends, with what each returned

logVars == <<req, resp, before, touched>>
threadVars == <<pc, handling, locals, replies>>
backendVars == <<table, call>>
vars ==
    <<verifications, now, req, resp, before, touched, pc, handling, locals, replies,
      table, call>>

----------------------------------------------------------------------------
(* Bounds of the model *)

\* The clock runs from 0 to MaxTime.
MaxTime == 2

\* Worker threads of the server handling requests at the same time.
NumThreads == 2

Threads == 1..NumThreads

----------------------------------------------------------------------------
(* Python values *)

NoneVal == << >>
Some(v) == <<v>>

\* Python truthiness of an optional string: None and "" are falsy.
Truthy(o) == o # NoneVal /\ o[1] # ""

\* `a or b` on optional strings.
PyOr(a, b) == IF Truthy(a) THEN a ELSE b

\* The empty dict.
EmptyDict == << >>

\* d[k] = v on a dict d.
DictSet(d, k, v) == [x \in (DOMAIN d) \cup {k} |-> IF x = k THEN v ELSE d[x]]

\* del d[k] on a dict d that has k.
\* A del that empties the dict.
DictDel_Clears(d, k) == [x \in {} |-> d[x]]

\* A del that removes nothing.
DictDel_Keeps(d, k) == d

DictDel(d, k) == [x \in (DOMAIN d) \ {k} |-> d[x]]

----------------------------------------------------------------------------
(* str.lower and str.replace *)

ToLower ==
    "A" :> "a" @@ "B" :> "b" @@ "L" :> "l" @@ "O" :> "o" @@ "Z" :> "z"

LowerChar(c) == IF c \in DOMAIN ToLower THEN ToLower[c] ELSE c

\* A lower() that leaves the string as it is.
Lower_Keeps(s) == s

\* s.lower()
Lower(s) == [i \in 1..Len(s) |-> LowerChar(s[i])]

UtcOffsetText == <<"+", "0", "0", ":", "0", "0">>

\* s.replace('Z', '+00:00')
RECURSIVE ReplaceZ(_)
ReplaceZ(s) ==
    IF s = << >> THEN << >>
    ELSE (IF Head(s) = "Z" THEN UtcOffsetText ELSE <<Head(s)>>) \o ReplaceZ(Tail(s))

----------------------------------------------------------------------------
(* float(), datetime.fromtimestamp, datetime.fromisoformat                 *)
(*                                                                         *)
(* A datetime is [secs, aware]: for an aware datetime secs is the UTC      *)
(* instant in epoch seconds, for a naive one it is the local wall-clock    *)
(* reading, with the server's zone taken to be UTC.  Instants outside the  *)
(* 32-bit range saturate at FarFuture, far beyond every clock reading of   *)
(* the model.                                                              *)
(***************************************************************************)

DigitVal ==
    "0" :> 0 @@ "1" :> 1 @@ "2" :> 2 @@ "3" :> 3 @@ "4" :> 4 @@
    "5" :> 5 @@ "6" :> 6 @@ "7" :> 7 @@ "8" :> 8 @@ "9" :> 9

IsDigit(c) == c \in DOMAIN DigitVal

AllDigits(s) == Len(s) > 0 /\ \A i \in 1..Len(s) : IsDigit(s[i])

FarFuture == 2^30 + (2^30 - 1)

\* The value of a string of digits, saturating.
RECURSIVE DecVal(_)
DecVal(s) ==
    IF s = << >> THEN 0
    ELSE LET hi == DecVal(SubSeq(s, 1, Len(s) - 1))
         IN  IF hi >= FarFuture \div 10 THEN FarFuture
             ELSE 10 * hi + DigitVal[s[Len(s)]]

RECURSIVE StripZeros(_)
StripZeros(s) ==
    IF s # << >> /\ Head(s) = "0" THEN StripZeros(Tail(s)) ELSE s

Raise(exc, msg) == [ok |-> FALSE, exc |-> exc, msg |-> msg]

\* float(s) for the decimal forms <digits> and <digits>e<digits>; any other
\* string raises ValueError.  The result keeps the number as mantissa and
\* decimal exponent.
FloatOf(s) ==
    LET es == {i \in 1..Len(s) : s[i] \in {"e", "E"}}
    IN  IF AllDigits(s) THEN [ok |-> TRUE, mant |-> s, exp |-> 0]
        ELSE IF Cardinality(es) = 1
                /\ LET e == CHOOSE i \in es : TRUE
                   IN  AllDigits(SubSeq(s, 1, e - 1)) /\ AllDigits(SubSeq(s, e + 1, Len(s)))
        THEN LET e == CHOOSE i \in es : TRUE
             IN  [ok |-> TRUE, mant |-> SubSeq(s, 1, e - 1),
                  exp |-> DecVal(SubSeq(s, e + 1, Len(s)))]
        ELSE Raise("ValueError", "could not convert string to float")

\* Number of decimal digits of the integer value of a float() result.
NumDigits(f) ==
    LET m == StripZeros(f.mant) IN IF m = << >> THEN 0 ELSE Len(m) + f.exp

\* datetime.fromtimestamp(f): a naive local datetime; a value past the
\* platform's time_t raises OverflowError, one past year 9999 ValueError.
FromTimestamp(f) ==
    LET n == NumDigits(f)
    IN  IF n >= 20 THEN Raise("OverflowError", "timestamp out of range for platform time_t")
        ELSE IF n >= 12 THEN Raise("ValueError", "year is out of range")
        ELSE [ok |-> TRUE,
              dt |-> [secs |-> IF n >= 10 THEN FarFuture
                               ELSE DecVal(StripZeros(f.mant)) * 10^(f.exp),
                      aware |-> FALSE]]

IsLeap(y) == (y % 4 = 0 /\ y % 100 # 0) \/ y % 400 = 0

DaysInMonth(y, m) ==
    IF m = 2 THEN (IF IsLeap(y) THEN 29 ELSE 28)
    ELSE IF m \in {4, 6, 9, 11} THEN 30 ELSE 31

\* Days from 1970-01-01 to the civil date y-m-d.
DaysFromCivil(y, m, d) ==
    LET yy  == IF m <= 2 THEN y - 1 ELSE y
        era == yy \div 400
        yoe == yy - era * 400
        mp  == IF m > 2 THEN m - 3 ELSE m + 9
        doy == (153 * mp + 2) \div 5 + d - 1
        doe == yoe * 365 + yoe \div 4 - yoe \div 100 + doy
    IN  era * 146097 + doe - 719468

\* Epoch seconds of a wall-clock reading, saturating outside 1902..2037.
EpochSecs(y, mo, d, h, mi, s) ==
    IF y > 2037 THEN FarFuture
    ELSE IF y < 1902 THEN -FarFuture
    ELSE DaysFromCivil(y, mo, d) * 86400 + h * 3600 + mi * 60 + s

\* datetime.fromisoformat(s) for the forms YYYY-MM-DDTHH:MM:SS and
\* YYYY-MM-DDTHH:MM:SS+HH:MM (or -HH:MM); any other string raises ValueError.
\* A string with a UTC offset gives an aware datetime.
FromIsoFormat(s) ==
    LET Num(a, b) == DecVal(SubSeq(s, a, b))
        shapeOk ==
            /\ Len(s) \in {19, 25}
            /\ \A i \in {1, 2, 3, 4, 6, 7, 9, 10, 12, 13, 15, 16, 18, 19} : IsDigit(s[i])
            /\ s[5] = "-" /\ s[8] = "-" /\ s[11] = "T" /\ s[14] = ":" /\ s[17] = ":"
            /\ Len(s) = 25 =>
                  /\ s[20] \in {"+", "-"}
                  /\ \A i \in {21, 22, 24, 25} : IsDigit(s[i])
                  /\ s[23] = ":"
        fieldsOk ==
            /\ Num(1, 4) >= 1
            /\ Num(6, 7) \in 1..12
            /\ Num(9, 10) \in 1..DaysInMonth(Num(1, 4), Num(6, 7))
            /\ Num(12, 13) < 24 /\ Num(15, 16) < 60 /\ Num(18, 19) < 60
            /\ Len(s) = 25 => (Num(21, 22) < 24 /\ Num(24, 25) < 60)
        local == EpochSecs(Num(1, 4), Num(6, 7), Num(9, 10),
                           Num(12, 13), Num(15, 16), Num(18, 19))
        offset == (IF s[20] = "-" THEN -1 ELSE 1) * (Num(21, 22) * 3600 + Num(24, 25) * 60)
    IN  IF ~(shapeOk /\ fieldsOk) THEN Raise("ValueError", "Invalid isoformat string")
        ELSE IF Len(s) = 19 THEN [ok |-> TRUE, dt |-> [secs |-> local, aware |-> FALSE]]
        ELSE [ok |-> TRUE,
              dt |-> [secs |-> IF local = FarFuture \/ local = -FarFuture THEN local
                               ELSE local - offset,
                      aware |-> TRUE]]

\* datetime.now(): a naive local datetime.
DatetimeNow(clock) == [secs |-> clock, aware |-> FALSE]

\* a > b on datetimes: comparing a naive with an aware one raises TypeError.
\* The comparison the other way round: expiry_time > datetime.now().
DatetimeGreater_Flipped(a, b) ==
    IF a.aware # b.aware
    THEN Raise("TypeError", "can't compare offset-naive and offset-aware datetimes")
    ELSE [ok |-> TRUE, val |-> a.secs < b.secs]

DatetimeGreater(a, b) ==
    IF a.aware # b.aware
    THEN Raise("TypeError", "can't compare offset-naive and offset-aware datetimes")
    ELSE [ok |-> TRUE, val |-> a.secs > b.secs]

----------------------------------------------------------------------------
(* Responses: jsonify(body), status *)

API_KEY == "RoyalGuard20252026-API"

RequiredFields ==
    <<"robloxUsername", "robloxID", "discordUsername", "discordID", "timeToVerify">>

Response(status, message, fields) ==
    [status |-> status,
     json   |-> [returnCode |-> status, response |-> message] @@ fields]

Unauthorized == Response(401, <<"Unauthorized: Invalid API Key">>, EmptyDict)

NotFound == Response(404, <<"Unable to fetch user details">>, EmptyDict)

MissingField(field) == Response(400, <<"Missing required field: ", field>>, EmptyDict)

InternalError(msg) == Response(500, <<"Internal server error: ", msg>>, EmptyDict)

JoinedGameUpdated(data) ==
    Response(200, <<"joinedGame updated successfully">>,
             [robloxUsername |-> data.robloxUsername, joinedGame |-> data.joinedGame])

Created(record) ==
    Response(201, <<"Verification data created/updated successfully">>, record)

Success(record) == Response(200, <<"Success">>, record)

Deleted(name) ==
    Response(200, <<"Verification data for ", name, " deleted successfully">>, EmptyDict)

Running(fields) == Response(200, <<"VerificationAPI is running">>, fields)

\* What a handler leaves behind: the store, the response, and the number of
\* accesses to the store it made.
Outcome(store, response, accesses) ==
    [store |-> store, resp |-> response, acc |-> accesses]

----------------------------------------------------------------------------
(* require_api_key *)

\* api_key = request.headers.get('X-API-Key') or request.args.get('api_key')
SuppliedKey(hdr, qry) == PyOr(hdr, qry)

\* A gate that lets a request without any key through.
KeyRejected_AbsentPasses(hdr, qry) == SuppliedKey(hdr, qry) \notin {Some(API_KEY), NoneVal}

\* if api_key != API_KEY
KeyRejected(hdr, qry) == SuppliedKey(hdr, qry) # Some(API_KEY)

----------------------------------------------------------------------------
(* create_verification: POST /api/verification *)

\* 'joinedGame' in data and len(data) == 2 and 'robloxUsername' in data
IsJoinedGameOnly(data) ==
    /\ "joinedGame" \in DOMAIN data
    /\ Cardinality(DOMAIN data) = 2
    /\ "robloxUsername" \in DOMAIN data

\* The last missing field instead of the first.
FirstMissing_Last(data) ==
    LET missing == {i \in 1..Len(RequiredFields) : RequiredFields[i] \notin DOMAIN data}
    IN  RequiredFields[CHOOSE i \in missing : \A j \in missing : i >= j]

\* The first field of required_fields that is not in data.
FirstMissing(data) ==
    LET missing == {i \in 1..Len(RequiredFields) : RequiredFields[i] \notin DOMAIN data}
    IN  RequiredFields[CHOOSE i \in missing : \A j \in missing : i <= j]

\* data.get('joinedGame', False)
JoinedGameOf(data) == IF "joinedGame" \in DOMAIN data THEN data.joinedGame ELSE FALSE

\* The record a full request stores.
NewRecord(data) ==
    [robloxUsername  |-> data.robloxUsername,
     robloxID        |-> data.robloxID,
     discordUsername |-> data.discordUsername,
     discordID       |-> data.discordID,
     timeToVerify    |-> data.timeToVerify,
     joinedGame      |-> JoinedGameOf(data)]

\* An update that leaves the record as it is.
SetJoinedGame_Same(record, value) == record

\* An update that also rewrites the stored username in its lowercase form.
SetJoinedGame_Lowers(record, value) ==
    [record EXCEPT !.joinedGame = value, !.robloxUsername = Lower(record.robloxUsername)]

\* verifications[username_lower]['joinedGame'] = value, on the stored record
SetJoinedGame(record, value) == [record EXCEPT !.joinedGame = value]

create_verification(store, data) ==
    IF IsJoinedGameOnly(data)
    THEN LET username_lower == Lower(data.robloxUsername)
         IN  IF username_lower \in DOMAIN store
             THEN Outcome(DictSet(store, username_lower,
                                  SetJoinedGame(store[username_lower], data.joinedGame)),
                          JoinedGameUpdated(data), 2)
             ELSE Outcome(store, NotFound, 1)
    ELSE IF \E i \in 1..Len(RequiredFields) : RequiredFields[i] \notin DOMAIN data
    THEN Outcome(store, MissingField(FirstMissing(data)), 0)
    ELSE Outcome(DictSet(store, Lower(data.robloxUsername), NewRecord(data)),
                 Created(NewRecord(data)), 1)

----------------------------------------------------------------------------
(* get_verification: GET /api/verification/<roblox_username> *)

\* Lines 133-141: the expiry instant of a timeToVerify string.  The result is
\* [ok |-> TRUE, dt |-> a datetime, or NoneVal when both parses fail], or the
\* exception that the inner handlers do not catch.
ExpiryTime(timeToVerify) ==
    LET number == FloatOf(timeToVerify)
        stamp  == FromTimestamp(number)
        iso    == FromIsoFormat(ReplaceZ(timeToVerify))
    IN  IF number.ok /\ stamp.ok THEN stamp
        ELSE IF number.ok /\ stamp.exc \notin {"ValueError", "TypeError"} THEN stamp
        ELSE IF iso.ok THEN iso
        ELSE [ok |-> TRUE, dt |-> NoneVal]

\* A check that never finds a record expired.
IsExpired_Never(expiry_time, clock) == [ok |-> TRUE, val |-> FALSE]

\* Line 143: expiry_time and datetime.now() > expiry_time
IsExpired(expiry_time, clock) ==
    IF expiry_time = NoneVal THEN [ok |-> TRUE, val |-> FALSE]
    ELSE DatetimeGreater(DatetimeNow(clock), expiry_time)

get_verification(store, clock, roblox_username) ==
    LET username_lower == Lower(roblox_username)
    IN  IF username_lower \notin DOMAIN store THEN Outcome(store, NotFound, 1)
        ELSE LET verification == store[username_lower]
                 expiry == ExpiryTime(verification.timeToVerify)
             IN  IF ~expiry.ok THEN Outcome(store, InternalError(expiry.msg), 2)
                 ELSE LET expired == IsExpired(expiry.dt, clock)
                      IN  IF ~expired.ok THEN Outcome(store, InternalError(expired.msg), 2)
                          ELSE IF expired.val
                          THEN Outcome(DictDel(store, username_lower), NotFound, 3)
                          ELSE Outcome(store, Success(verification), 2)

----------------------------------------------------------------------------
(* delete_verification: DELETE /api/verification/<roblox_username> *)

delete_verification(store, roblox_username) ==
    LET username_lower == Lower(roblox_username)
    IN  IF username_lower \in DOMAIN store
        THEN Outcome(DictDel(store, username_lower), Deleted(roblox_username), 2)
        ELSE Outcome(store, NotFound, 1)

----------------------------------------------------------------------------
(* root and health_check *)

EndpointList ==
    <<"GET /api/health", "POST /api/verification",
      "GET /api/verification/<username>", "DELETE /api/verification/<username>">>

root(store) == Outcome(store, Running([endpoints |-> EndpointList]), 0)

health_check(store) == Outcome(store, Running([status |-> "healthy"]), 0)

----------------------------------------------------------------------------
(* database.py: the store kept in the MySQL table `verifications`.  A row  *)
(* has the six columns of a record, joinedGame as TINYINT.  A function     *)
(* that writes returns the new rows and its return value.                  *)
(***************************************************************************)

\* COLLATE utf8mb4_unicode_ci: the UNIQUE index on robloxUsername and every
\* WHERE robloxUsername = %s compare without regard to case.
CollationEqual(a, b) == Lower(a) = Lower(b)

RowsWhere(rows, roblox_username) ==
    {r \in rows : CollationEqual(r.robloxUsername, roblox_username)}

\* int(joined_game) and bool(row['joinedGame'])
IntOf(b) == IF b THEN 1 ELSE 0
BoolOf(i) == i # 0

DbResult(rows, ret) == [table |-> rows, ret |-> ret]

\* UPDATE ... SET robloxID, discordUsername, discordID, timeToVerify,
\* joinedGame WHERE robloxUsername = %s: the robloxUsername column is not
\* among the columns set.
update_verification(rows, roblox_username, roblox_id, discord_username, discord_id, time_to_verify, joined_game) ==
    DbResult({IF CollationEqual(r.robloxUsername, roblox_username)
              THEN [r EXCEPT !.robloxID = roblox_id,
                             !.discordUsername = discord_username,
                             !.discordID = discord_id,
                             !.timeToVerify = time_to_verify,
                             !.joinedGame = IntOf(joined_game)]
              ELSE r : r \in rows},
             TRUE)

\* INSERT; on pymysql.IntegrityError (the UNIQUE index) update instead.
add_verification(rows, roblox_username, roblox_id, discord_username, discord_id, time_to_verify, joined_game) ==
    IF RowsWhere(rows, roblox_username) = {}
    THEN DbResult(rows \cup {[robloxUsername  |-> roblox_username,
                              robloxID        |-> roblox_id,
                              discordUsername |-> discord_username,
                              discordID       |-> discord_id,
                              timeToVerify    |-> time_to_verify,
                              joinedGame      |-> IntOf(joined_game)]},
                  TRUE)
    ELSE update_verification(rows, roblox_username, roblox_id, discord_username,
                             discord_id, time_to_verify, joined_game)

\* SELECT ... WHERE robloxUsername = %s; fetchone(); None when there is no row.
get_verification_by_username(rows, roblox_username) ==
    IF RowsWhere(rows, roblox_username) = {} THEN NoneVal
    ELSE LET row == CHOOSE r \in RowsWhere(rows, roblox_username) : TRUE
         IN  Some([row EXCEPT !.joinedGame = BoolOf(row.joinedGame)])

\* UPDATE ... SET joinedGame WHERE robloxUsername = %s; returns
\* cursor.rowcount > 0.  The connection is opened without CLIENT.FOUND_ROWS
\* (get_db_config), so rowcount counts the rows the UPDATE changed, not the
\* rows it matched.
update_joined_game(rows, roblox_username, joined_game) ==
    LET changed == {r \in RowsWhere(rows, roblox_username) :
                       r.joinedGame # IntOf(joined_game)}
    IN  DbResult({IF r \in changed THEN [r EXCEPT !.joinedGame = IntOf(joined_game)]
                  ELSE r : r \in rows},
                 changed # {})

\* DELETE ... WHERE robloxUsername = %s; returns cursor.rowcount > 0.
delete_verification_by_username(rows, roblox_username) ==
    DbResult(rows \ RowsWhere(rows, roblox_username),
             RowsWhere(rows, roblox_username) # {})

\* check_and_delete_expired: the parse and the comparison are both inside
\* the outer try, and any exception makes the result False.
check_and_delete_expired(time_to_verify, clock) ==
    LET number == FloatOf(time_to_verify)
        stamp  == FromTimestamp(number)
        iso    == FromIsoFormat(ReplaceZ(time_to_verify))
        expiry == IF number.ok /\ stamp.ok THEN stamp
                  ELSE IF number.ok /\ stamp.exc \notin {"ValueError", "TypeError"} THEN stamp
                  ELSE iso
    IN  IF ~expiry.ok THEN FALSE
        ELSE LET expired == DatetimeGreater(DatetimeNow(clock), expiry.dt)
             IN  IF expired.ok THEN expired.val ELSE FALSE

\* A fetch on the table: the row is looked up, check_and_delete_expired is
\* asked about its timeToVerify, and an expired row is deleted and reported
\* as not found.
fetch_from_table(rows, clock, roblox_username) ==
    LET row == get_verification_by_username(rows, roblox_username)
    IN  IF row = NoneVal THEN [table |-> rows, row |-> NoneVal, expired |-> FALSE]
        ELSE IF check_and_delete_expired(row[1].timeToVerify, clock)
        THEN [table |-> delete_verification_by_username(rows, roblox_username).table,
              row |-> row, expired |-> TRUE]
        ELSE [table |-> rows, row |-> row, expired |-> FALSE]

----------------------------------------------------------------------------
(* The requests the model sends *)

NameAl == <<"A", "l">>
NameaL == <<"a", "L">>
NameBo == <<"b", "o">>

\* Two identities whose usernames share the key "al" and that differ in
\* every field, and one under another key.
ProfileAl ==
    [robloxUsername |-> NameAl, robloxID |-> "1001",
     discordUsername |-> "al#1", discordID |-> "9001"]
ProfileaL ==
    [robloxUsername |-> NameaL, robloxID |-> "1002",
     discordUsername |-> "al#2", discordID |-> "9002"]
ProfileBo ==
    [robloxUsername |-> NameBo, robloxID |-> "2001",
     discordUsername |-> "bo#1", discordID |-> "9101"]

\* timeToVerify strings: "1", "1970-01-01T00:00:01", "1970-01-01T00:00:01Z",
\* "not-a-time" and "1e30".
TimeUnix == <<"1">>
TimeIso  ==
    <<"1", "9", "7", "0", "-", "0", "1", "-", "0", "1", "T",
      "0", "0", ":", "0", "0", ":", "0", "1">>
TimeIsoZ == TimeIso \o <<"Z">>
TimeJunk == <<"n", "o", "t", "-", "a", "-", "t", "i", "m", "e">>
TimeHuge == <<"1", "e", "3", "0">>

TimeStrings == {TimeUnix, TimeIso, TimeIsoZ, TimeJunk, TimeHuge}

\* The body of a full request; joined is NoneVal when the key is left out.
Body(profile, timeToVerify, joined) ==
    profile @@ [timeToVerify |-> timeToVerify]
            @@ (IF joined = NoneVal THEN EmptyDict ELSE [joinedGame |-> joined[1]])

JoinedOptions == {NoneVal, Some(TRUE), Some(FALSE)}

FullBodies ==
    {Body(p, t, j) : p \in {ProfileAl, ProfileaL}, t \in TimeStrings, j \in JoinedOptions}
    \cup {Body(ProfileBo, TimeUnix, j) : j \in {NoneVal, Some(TRUE)}}
    \cup {Body(ProfileBo, TimeUnix, NoneVal) @@ [note |-> "x"]}

\* A full request whose robloxID is the empty string.
EmptyFieldBodies == {Body([ProfileBo EXCEPT !.robloxID = ""], TimeUnix, NoneVal)}

\* d without the keys in ks.
Without(d, ks) == [k \in (DOMAIN d) \ ks |-> d[k]]

BaseBody == Body(ProfileAl, TimeUnix, Some(TRUE))

\* Bodies that are neither a full request nor a joinedGame-only update.
InvalidBodies ==
    {Without(BaseBody, {f}) : f \in DOMAIN ProfileAl \cup {"timeToVerify"}}
    \cup {Without(BaseBody, {"robloxID", "discordID"}),
          Without(BaseBody, {"discordUsername", "timeToVerify", "joinedGame"}),
          EmptyDict,
          [joinedGame |-> TRUE],
          [robloxUsername |-> NameAl],
          [robloxUsername |-> NameAl, note |-> "x"],
          [joinedGame |-> TRUE, robloxID |-> "1001"],
          [robloxUsername |-> NameAl, joinedGame |-> TRUE, note |-> "x"]}

\* Usernames in URLs and in joinedGame-only updates: "al", "AL" and "bo".
LookupNames == {<<"a", "l">>, <<"A", "L">>, NameBo}

JoinedGameOnlyBodies ==
    {[robloxUsername |-> n, joinedGame |-> j] : n \in LookupNames, j \in BOOLEAN}

\* The credentials of a request: <<X-API-Key header, api_key parameter>>.
GoodCredentials == <<Some(API_KEY), NoneVal>>

CredentialSamples ==
    {GoodCredentials,
     <<NoneVal, Some(API_KEY)>>,
     <<Some(""), Some(API_KEY)>>,
     <<NoneVal, NoneVal>>,
     <<Some(""), NoneVal>>,
     <<Some("wrong"), NoneVal>>,
     <<NoneVal, Some("wrong")>>,
     <<Some("wrong"), Some(API_KEY)>>}

\* Each request is sent with the good credentials, and a few with every sample.
PostRequests ==
    ((FullBodies \cup EmptyFieldBodies \cup InvalidBodies \cup JoinedGameOnlyBodies)
        \X {GoodCredentials})
    \cup ({BaseBody, [robloxUsername |-> <<"a", "l">>, joinedGame |-> TRUE]}
          \X CredentialSamples)

UrlRequests ==
    (LookupNames \X {GoodCredentials}) \cup ({<<"a", "l">>} \X CredentialSamples)

OpenRequests == {GoodCredentials, <<NoneVal, NoneVal>>, <<Some("wrong"), NoneVal>>}

----------------------------------------------------------------------------
(* The server handling one request at a time *)

NoResponse == [status |-> 0, json |-> EmptyDict]

\* No `verification` bound yet.
NoLocals == [verification |-> NoneVal, shared |-> FALSE]

Init ==
    /\ verifications = EmptyDict
    /\ now = 0
    /\ req = [route |-> "start"]
    /\ resp = NoResponse
    /\ before = EmptyDict
    /\ touched = 0
    /\ pc = [t \in Threads |-> "idle"]
    /\ handling = [t \in Threads |-> [route |-> "none"]]
    /\ locals = [t \in Threads |-> NoLocals]
    /\ replies = [t \in Threads |-> NoResponse]
    /\ table = {}
    /\ call = [op |-> "none"]

\* require_api_key around a handler: the handler runs only with the key.
Gate(cred, outcome) ==
    IF KeyRejected(cred[1], cred[2]) THEN Outcome(verifications, Unauthorized, 0)
    ELSE outcome

PostVerification(data, cred) ==
    LET done == Gate(cred, create_verification(verifications, data))
    IN  /\ verifications' = done.store
        /\ resp' = done.resp
        /\ touched' = done.acc
        /\ req' = [route |-> "POST", body |-> data, hdr |-> cred[1], qry |-> cred[2]]
        /\ before' = verifications
        /\ UNCHANGED <<now, threadVars, backendVars>>

GetVerification(name, cred) ==
    LET done == Gate(cred, get_verification(verifications, now, name))
    IN  /\ verifications' = done.store
        /\ resp' = done.resp
        /\ touched' = done.acc
        /\ req' = [route |-> "GET", name |-> name, hdr |-> cred[1], qry |-> cred[2]]
        /\ before' = verifications
        /\ UNCHANGED <<now, threadVars, backendVars>>

DeleteVerification(name, cred) ==
    LET done == Gate(cred, delete_verification(verifications, name))
    IN  /\ verifications' = done.store
        /\ resp' = done.resp
        /\ touched' = done.acc
        /\ req' = [route |-> "DELETE", name |-> name, hdr |-> cred[1], qry |-> cred[2]]
        /\ before' = verifications
        /\ UNCHANGED <<now, threadVars, backendVars>>

Root(cred) ==
    LET done == root(verifications)
    IN  /\ verifications' = done.store
        /\ resp' = done.resp
        /\ touched' = done.acc
        /\ req' = [route |-> "ROOT", hdr |-> cred[1], qry |-> cred[2]]
        /\ before' = verifications
        /\ UNCHANGED <<now, threadVars, backendVars>>

HealthCheck(cred) ==
    LET done == health_check(verifications)
    IN  /\ verifications' = done.store
        /\ resp' = done.resp
        /\ touched' = done.acc
        /\ req' = [route |-> "HEALTH", hdr |-> cred[1], qry |-> cred[2]]
        /\ before' = verifications
        /\ UNCHANGED <<now, threadVars, backendVars>>

\* A second passes.
Tick ==
    /\ now < MaxTime
    /\ now' = now + 1
    /\ req' = [route |-> "tick"]
    /\ resp' = NoResponse
    /\ before' = verifications
    /\ touched' = 0
    /\ UNCHANGED <<verifications, threadVars, backendVars>>

Next ==
    \/ \E r \in PostRequests : PostVerification(r[1], r[2])
    \/ \E r \in UrlRequests : GetVerification(r[1], r[2])
    \/ \E r \in UrlRequests : DeleteVerification(r[1], r[2])
    \/ \E c \in OpenRequests : Root(c)
    \/ \E c \in OpenRequests : HealthCheck(c)
    \/ Tick

Spec == Init /\ [][Next]_vars

----------------------------------------------------------------------------
(* The server handling requests on several threads at once.  The module    *)
(* api.py takes no lock: a handler is a sequence of steps, one per access  *)
(* to `verifications`, and the steps of different threads interleave.  A   *)
(* thread's pc names the line of api.py whose access it makes next.        *)
(***************************************************************************)

ConcurrentRequests ==
    {[route |-> "POST", body |-> Body(ProfileAl, TimeUnix, Some(FALSE)),
      hdr |-> Some(API_KEY), qry |-> NoneVal],
     [route |-> "POST", body |-> Body(ProfileaL, TimeJunk, NoneVal),
      hdr |-> Some(API_KEY), qry |-> NoneVal],
     [route |-> "POST", body |-> [robloxUsername |-> <<"a", "l">>, joinedGame |-> TRUE],
      hdr |-> Some(API_KEY), qry |-> NoneVal],
     [route |-> "GET", name |-> <<"a", "l">>, hdr |-> Some(API_KEY), qry |-> NoneVal],
     [route |-> "DELETE", name |-> <<"A", "L">>, hdr |-> Some(API_KEY), qry |-> NoneVal]}

\* username_lower of the request a thread is handling.
UsernameLower(t) ==
    IF handling[t].route = "POST" THEN Lower(handling[t].body.robloxUsername)
    ELSE Lower(handling[t].name)

\* str(KeyError(key))
KeyErrorText(key) == <<"'">> \o key \o <<"'">>

KeyError(key) == Response(500, <<"Internal server error: ">> \o KeyErrorText(key), EmptyDict)

\* The thread sends its response and is free again.
Reply(t, response) ==
    /\ replies' = [replies EXCEPT ![t] = response]
    /\ pc' = [pc EXCEPT ![t] = "idle"]

\* The thread moves on to another line.
Goto(t, line) ==
    /\ pc' = [pc EXCEPT ![t] = line]
    /\ UNCHANGED replies

\* The record under key is replaced or removed: a thread that holds the old
\* record in `verification` no longer shares it with the store.
Unshared(key) ==
    [u \in Threads |->
        IF locals[u].shared /\ UsernameLower(u) = key
        THEN [locals[u] EXCEPT !.shared = FALSE] ELSE locals[u]]

\* Lines 19-55: the gate, and the handler up to its first access.
Accept(t, request) ==
    /\ pc[t] = "idle"
    /\ handling' = [handling EXCEPT ![t] = request]
    /\ locals' = [locals EXCEPT ![t] = NoLocals]
    /\ IF KeyRejected(request.hdr, request.qry) THEN Reply(t, Unauthorized)
       ELSE IF request.route = "GET"
       THEN /\ pc' = [pc EXCEPT ![t] = "L124"]
            /\ replies' = [replies EXCEPT ![t] = NoResponse]
       ELSE IF request.route = "DELETE"
       THEN /\ pc' = [pc EXCEPT ![t] = "L179"]
            /\ replies' = [replies EXCEPT ![t] = NoResponse]
       ELSE IF IsJoinedGameOnly(request.body)
       THEN /\ pc' = [pc EXCEPT ![t] = "L58"]
            /\ replies' = [replies EXCEPT ![t] = NoResponse]
       ELSE IF \E i \in 1..Len(RequiredFields) : RequiredFields[i] \notin DOMAIN request.body
       THEN Reply(t, MissingField(FirstMissing(request.body)))
       ELSE /\ pc' = [pc EXCEPT ![t] = "L86"]
            /\ replies' = [replies EXCEPT ![t] = NoResponse]
    /\ UNCHANGED <<verifications, now, logVars, backendVars>>

\* Line 58: if username_lower in verifications
CheckJoinedGameKey(t) ==
    /\ pc[t] = "L58"
    /\ IF UsernameLower(t) \in DOMAIN verifications THEN Goto(t, "L59")
       ELSE Reply(t, NotFound)
    /\ UNCHANGED <<verifications, now, logVars, backendVars, handling, locals>>

\* Line 59: verifications[username_lower]['joinedGame'] = data['joinedGame'].
\* The stored record is changed in place, so a thread that holds it in
\* `verification` sees the change.
WriteJoinedGame(t) ==
    /\ pc[t] = "L59"
    /\ LET key == UsernameLower(t)
       IN  IF key \notin DOMAIN verifications
           THEN /\ Reply(t, KeyError(key))
                /\ UNCHANGED <<verifications, locals>>
           ELSE /\ verifications' =
                       DictSet(verifications, key,
                               SetJoinedGame(verifications[key], handling[t].body.joinedGame))
                /\ locals' =
                       [u \in Threads |->
                           IF locals[u].shared /\ UsernameLower(u) = key
                           THEN [locals[u] EXCEPT !.verification = Some(verifications'[key])]
                           ELSE locals[u]]
                /\ Reply(t, JoinedGameUpdated(handling[t].body))
    /\ UNCHANGED <<now, logVars, backendVars, handling>>

\* Lines 85-104: verifications[username_lower] = {...}, a new record.
StoreRecord(t) ==
    /\ pc[t] = "L86"
    /\ verifications' = DictSet(verifications, UsernameLower(t), NewRecord(handling[t].body))
    /\ locals' = Unshared(UsernameLower(t))
    /\ Reply(t, Created(NewRecord(handling[t].body)))
    /\ UNCHANGED <<now, logVars, backendVars, handling>>

\* Line 124: if username_lower not in verifications
CheckGetKey(t) ==
    /\ pc[t] = "L124"
    /\ IF UsernameLower(t) \notin DOMAIN verifications THEN Reply(t, NotFound)
       ELSE Goto(t, "L130")
    /\ UNCHANGED <<verifications, now, logVars, backendVars, handling, locals>>

\* Line 130: verification = verifications[username_lower]
ReadRecord(t) ==
    /\ pc[t] = "L130"
    /\ LET key == UsernameLower(t)
       IN  IF key \notin DOMAIN verifications
           THEN /\ Reply(t, KeyError(key))
                /\ UNCHANGED locals
           ELSE /\ locals' = [locals EXCEPT ![t] =
                                 [verification |-> Some(verifications[key]), shared |-> TRUE]]
                /\ Goto(t, "L133")
    /\ UNCHANGED <<verifications, now, logVars, backendVars, handling>>

\* Lines 133-143: parse verification['timeToVerify'] and compare it with
\* datetime.now().
EvaluateExpiry(t) ==
    /\ pc[t] = "L133"
    /\ LET expiry == ExpiryTime(locals[t].verification[1].timeToVerify)
       IN  IF ~expiry.ok THEN Reply(t, InternalError(expiry.msg))
           ELSE LET expired == IsExpired(expiry.dt, now)
                IN  IF ~expired.ok THEN Reply(t, InternalError(expired.msg))
                    ELSE IF expired.val THEN Goto(t, "L145")
                    ELSE Goto(t, "L152")
    /\ UNCHANGED <<verifications, now, logVars, backendVars, handling, locals>>

\* Lines 145-149: del verifications[username_lower], whatever record is
\* under the key by now.
DeleteExpired(t) ==
    /\ pc[t] = "L145"
    /\ LET key == UsernameLower(t)
       IN  IF key \notin DOMAIN verifications
           THEN /\ Reply(t, KeyError(key))
                /\ UNCHANGED <<verifications, locals>>
           ELSE /\ verifications' = DictDel(verifications, key)
                /\ locals' = Unshared(key)
                /\ Reply(t, NotFound)
    /\ UNCHANGED <<now, logVars, backendVars, handling>>

\* Lines 152-161: the response is built from `verification`.
ReturnRecord(t) ==
    /\ pc[t] = "L152"
    /\ Reply(t, Success(locals[t].verification[1]))
    /\ UNCHANGED <<verifications, now, logVars, backendVars, handling, locals>>

\* Line 179: if username_lower in verifications
CheckDeleteKey(t) ==
    /\ pc[t] = "L179"
    /\ IF UsernameLower(t) \in DOMAIN verifications THEN Goto(t, "L180")
       ELSE Reply(t, NotFound)
    /\ UNCHANGED <<verifications, now, logVars, backendVars, handling, locals>>

\* Lines 180-184: del verifications[username_lower]
DeleteRecord(t) ==
    /\ pc[t] = "L180"
    /\ LET key == UsernameLower(t)
       IN  IF key \notin DOMAIN verifications
           THEN /\ Reply(t, KeyError(key))
                /\ UNCHANGED <<verifications, locals>>
           ELSE /\ verifications' = DictDel(verifications, key)
                /\ locals' = Unshared(key)
                /\ Reply(t, Deleted(handling[t].name))
    /\ UNCHANGED <<now, logVars, backendVars, handling>>

\* A second passes while requests are in flight.
ConcurrentTick ==
    /\ now < MaxTime
    /\ now' = now + 1
    /\ UNCHANGED <<verifications, logVars, backendVars, threadVars>>

ConcurrentNext ==
    \/ \E t \in Threads, r \in ConcurrentRequests : Accept(t, r)
    \/ \E t \in Threads : CheckJoinedGameKey(t)
    \/ \E t \in Threads : WriteJoinedGame(t)
    \/ \E t \in Threads : StoreRecord(t)
    \/ \E t \in Threads : CheckGetKey(t)
    \/ \E t \in Threads : ReadRecord(t)
    \/ \E t \in Threads : EvaluateExpiry(t)
    \/ \E t \in Threads : DeleteExpired(t)
    \/ \E t \in Threads : ReturnRecord(t)
    \/ \E t \in Threads : CheckDeleteKey(t)
    \/ \E t \in Threads : DeleteRecord(t)
    \/ ConcurrentTick

ConcurrentSpec == Init /\ [][ConcurrentNext]_vars

----------------------------------------------------------------------------
(* The two backends side by side: each store call is made on the          *)
(* in-memory store of api.py and on the table of database.py, and `call`   *)
(* keeps what each of them answered.                                       *)
(***************************************************************************)

BackendBodies ==
    {Body(ProfileAl, TimeUnix, Some(TRUE)),
     Body(ProfileaL, TimeJunk, NoneVal),
     Body(ProfileAl, TimeIsoZ, Some(FALSE)),
     Body(ProfileBo, TimeUnix, NoneVal)}

BackendUpsert(data) ==
    LET mem == create_verification(verifications, data)
        db  == add_verification(table, data.robloxUsername, data.robloxID,
                                data.discordUsername, data.discordID,
                                data.timeToVerify, JoinedGameOf(data))
    IN  /\ verifications' = mem.store
        /\ table' = db.table
        /\ call' = [op |-> "upsert", name |-> data.robloxUsername,
                    mem |-> mem.resp, db |-> db.ret]
        /\ UNCHANGED <<now, logVars, threadVars>>

BackendUpdateJoinedGame(name, joined) ==
    LET mem == create_verification(verifications,
                                   [robloxUsername |-> name, joinedGame |-> joined])
        db  == update_joined_game(table, name, joined)
    IN  /\ verifications' = mem.store
        /\ table' = db.table
        /\ call' = [op |-> "update", name |-> name, mem |-> mem.resp, db |-> db.ret]
        /\ UNCHANGED <<now, logVars, threadVars>>

BackendGet(name) ==
    LET mem == get_verification(verifications, now, name)
        db  == fetch_from_table(table, now, name)
    IN  /\ verifications' = mem.store
        /\ table' = db.table
        /\ call' = [op |-> "get", name |-> name, mem |-> mem.resp,
                    db |-> [row |-> db.row, expired |-> db.expired]]
        /\ UNCHANGED <<now, logVars, threadVars>>

BackendDelete(name) ==
    LET mem == delete_verification(verifications, name)
        db  == delete_verification_by_username(table, name)
    IN  /\ verifications' = mem.store
        /\ table' = db.table
        /\ call' = [op |-> "delete", name |-> name, mem |-> mem.resp, db |-> db.ret]
        /\ UNCHANGED <<now, logVars, threadVars>>

\* A second passes.
BackendTick ==
    /\ now < MaxTime
    /\ now' = now + 1
    /\ call' = [op |-> "tick"]
    /\ UNCHANGED <<verifications, table, logVars, threadVars>>

BackendNext ==
    \/ \E data \in BackendBodies : BackendUpsert(data)
    \/ \E name \in LookupNames, joined \in BOOLEAN : BackendUpdateJoinedGame(name, joined)
    \/ \E name \in LookupNames : BackendGet(name)
    \/ \E name \in LookupNames : BackendDelete(name)
    \/ BackendTick

BackendSpec == Init /\ [][BackendNext]_vars

----------------------------------------------------------------------------
(* Vocabulary of the claims.  None of it is used by the model above: it    *)
(* says what a request asked for and what the store should hold, from the  *)
(* logged request, the logged response and the store before and after.     *)
(***************************************************************************)

SixFields ==
    {"robloxUsername", "robloxID", "discordUsername", "discordID",
     "timeToVerify", "joinedGame"}

CasePairs == {<<"A", "a">>, <<"B", "b">>, <<"L", "l">>, <<"O", "o">>, <<"Z", "z">>}

\* Equal up to the case of the letters: the two usernames share a key.
Folds(a, b) ==
    /\ Len(a) = Len(b)
    /\ \A i \in 1..Len(a) :
          a[i] = b[i] \/ <<a[i], b[i]>> \in CasePairs \/ <<b[i], a[i]>> \in CasePairs

\* The request carried the shared secret in its X-API-Key header.
WithKey(r) == r.hdr = Some(API_KEY)

IsPost(r)   == r.route = "POST" /\ WithKey(r)
IsGet(r)    == r.route = "GET" /\ WithKey(r)
IsDelete(r) == r.route = "DELETE" /\ WithKey(r)

\* A POST body with exactly the two keys robloxUsername and joinedGame.
TwoKeyShape(d) == DOMAIN d = {"robloxUsername", "joinedGame"}

\* A POST body with all five required fields.
FullShape(d) == \A i \in 1..Len(RequiredFields) : RequiredFields[i] \in DOMAIN d

\* The record a full request B asks the store to hold.
Asked(d) ==
    [f \in SixFields |->
        IF f # "joinedGame" THEN d[f]
        ELSE IF "joinedGame" \in DOMAIN d THEN d.joinedGame ELSE FALSE]

\* The six record fields of a response.
Echo(r) == [f \in SixFields |-> r.json[f]]

\* The instant a timeToVerify string of the model denotes, if any: "1",
\* "1970-01-01T00:00:01" and "1970-01-01T00:00:01Z" are one second past the
\* epoch, "not-a-time" and "1e30" are no instant.
Instant(t) == IF t \in {TimeUnix, TimeIso, TimeIsoZ} THEN Some(1) ELSE NoneVal

\* The string denotes an expiry instant, and it has not passed at the clock
\* reading: the record is in its verification window.
Pending(t, clock) == Instant(t) # NoneVal /\ clock <= Instant(t)[1]

\* The keys of a store under which a username is found.
KeysOf(store, name) == {k \in DOMAIN store : Folds(k, name)}

\* The value of a request field is empty text.
EmptyText(f, v) == IF f \in {"robloxUsername", "timeToVerify"} THEN v = << >> ELSE v = ""

\* The string has no uppercase letter.
IsLowerCase(k) == \A i \in 1..Len(k) : \A c \in CasePairs : k[i] # c[1]

\* The string denotes an expiry instant, and it has passed at the clock reading.
Elapsed(t, clock) == Instant(t) # NoneVal /\ clock > Instant(t)[1]

\* The records a table holds, joinedGame read back as a boolean.
RecordsOfTable(rows) == {[f \in SixFields |-> IF f = "joinedGame" THEN r[f] # 0 ELSE r[f]] : r \in rows}

\* The records a store holds.
RecordsOfStore(store) == {store[k] : k \in DOMAIN store}

\* The request is a full upsert, answered 201, of a username equal to name
\* up to case.
FullUpsertOn(r, response, name) ==
    /\ r.route = "POST" /\ FullShape(r.body)
    /\ response.status = 201
    /\ Folds(r.body.robloxUsername, name)

\* The thread has made its first access to the store and is about to make
\* another one.
BetweenAccesses(t) == pc[t] \in {"L59", "L130", "L145", "L180"}

----------------------------------------------------------------------------
(* The claims *)

\* C1: Key normalization. After a full Upsert with username U, a Fetch with
\* any username that equals U up to case returns the stored record (200), and
\* its robloxUsername is exactly U as supplied. Stated for a record fetched
\* within its verification window.
C1_KeyNormalization ==
    [][ ( /\ IsPost(req) /\ FullShape(req.body)
          /\ IsGet(req')
          /\ Folds(req'.name, req.body.robloxUsername)
          /\ Pending(req.body.timeToVerify, now) )
        => ( /\ resp'.status = 200
             /\ resp'.json.robloxUsername = req.body.robloxUsername
             /\ Echo(resp') = Asked(req.body) ) ]_vars

\* C2: Upsert override. After full upserts A then B on the same key, a
\* following Fetch returns B in full (200) and no field of A survives:
\* robloxUsername has B's casing, and joinedGame is B's value, or false when B
\* leaves it out. Stated for B fetched within its verification window.
C2_UpsertOverride ==
    [][ ( /\ IsPost(req) /\ FullShape(req.body)
          /\ KeysOf(before, req.body.robloxUsername) # {}
          /\ IsGet(req')
          /\ Folds(req'.name, req.body.robloxUsername)
          /\ Pending(req.body.timeToVerify, now) )
        => ( /\ resp'.status = 200
             /\ Echo(resp') = Asked(req.body) ) ]_vars

\* C3: Partial update isolation. A POST with exactly the keys robloxUsername
\* and joinedGame, on an existing key, answers 200, sets joinedGame of that one
\* record and changes no other field and no other record; on a key with no
\* record it answers 404 and leaves the store as it was.
C3_PartialUpdateIsolation ==
    (IsPost(req) /\ TwoKeyShape(req.body)) =>
        LET hit == KeysOf(before, req.body.robloxUsername)
        IN  IF hit # {}
            THEN /\ Cardinality(hit) = 1
                 /\ resp.status = 200
                 /\ DOMAIN verifications = DOMAIN before
                 /\ \A k \in DOMAIN before :
                       verifications[k] =
                           IF k \in hit
                           THEN [f \in SixFields |->
                                    IF f = "joinedGame" THEN req.body.joinedGame
                                    ELSE before[k][f]]
                           ELSE before[k]
            ELSE /\ resp.status = 404
                 /\ verifications = before

\* A joinedGame-only update found a record under another casing, flipped its
\* joinedGame from false to true, and another record was in the store.
C3_Witness ==
    /\ IsPost(req) /\ TwoKeyShape(req.body)
    /\ resp.status = 200
    /\ \E k \in KeysOf(before, req.body.robloxUsername) :
          /\ before[k].robloxUsername # req.body.robloxUsername
          /\ before[k].joinedGame = FALSE
          /\ verifications[k].joinedGame = TRUE
    /\ Cardinality(DOMAIN before) = 2

\* C4: Expiry by elapsed Unix timestamp. A Fetch of a record whose
\* timeToVerify is a numeric Unix timestamp strictly before the current time
\* answers 404, and the record is no longer in the store.
C4_UnixExpiry ==
    IsGet(req) =>
        \A k \in KeysOf(before, req.name) :
            ( /\ before[k].timeToVerify = TimeUnix
              /\ Instant(TimeUnix)[1] < now )
            => ( /\ resp.status = 404
                 /\ resp.json.response = <<"Unable to fetch user details">>
                 /\ KeysOf(verifications, req.name) = {} )

\* A Fetch found a record with the Unix timestamp "1" at time 2 and removed it.
C4_Witness ==
    /\ IsGet(req)
    /\ resp.status = 404
    /\ now > Instant(TimeUnix)[1]
    /\ \E k \in KeysOf(before, req.name) :
          before[k].timeToVerify = TimeUnix /\ k \notin DOMAIN verifications

\* C5: ISO-8601 timestamps with a trailing Z are UTC expiry instants. A Fetch
\* of a record whose Z-suffixed instant has not passed returns the record
\* unchanged (200); once the instant has passed it answers 404 and removes
\* the record.
C5_IsoZAccepted ==
    IsGet(req) =>
        \A k \in KeysOf(before, req.name) :
            before[k].timeToVerify = TimeIsoZ =>
                IF now <= Instant(TimeIsoZ)[1]
                THEN /\ resp.status = 200
                     /\ Echo(resp) = before[k]
                     /\ verifications = before
                ELSE /\ resp.status = 404
                     /\ KeysOf(verifications, req.name) = {}

\* C6: Unparseable timestamp permissiveness. A record whose timeToVerify is
\* neither a Unix timestamp nor an ISO-8601 datetime never expires: every
\* Fetch of it, at any time, returns the record (200) and leaves the store
\* as it was.
C6_UnparseableNeverExpires ==
    IsGet(req) =>
        \A k \in KeysOf(before, req.name) :
            Instant(before[k].timeToVerify) = NoneVal =>
                /\ resp.status = 200
                /\ Echo(resp) = before[k]
                /\ verifications = before

\* C7: Delete removes and is idempotent-safe. A Delete on an existing key
\* removes exactly that record and answers 200; a Delete on a key with no
\* record, such as a second Delete of the same username, answers 404 and
\* leaves the store as it was.
C7_DeleteIdempotentSafe ==
    [][ IsDelete(req') =>
          LET hit == KeysOf(verifications, req'.name)
          IN  /\ hit # {} =>
                    /\ Cardinality(hit) = 1
                    /\ resp'.status = 200
                    /\ verifications' = [k \in (DOMAIN verifications) \ hit |-> verifications[k]]
              /\ hit = {} =>
                    /\ resp'.status = 404
                    /\ verifications' = verifications
              /\ (IsDelete(req) /\ resp.status = 200 /\ Folds(req.name, req'.name)) =>
                    /\ resp'.status = 404
                    /\ verifications' = verifications ]_vars

\* A Delete under another casing removed one record of two.
C7_Witness ==
    /\ IsDelete(req)
    /\ resp.status = 200
    /\ Cardinality(DOMAIN before) = 2
    /\ Cardinality(DOMAIN verifications) = 1
    /\ \E k \in KeysOf(before, req.name) :
          before[k].robloxUsername # req.name /\ k \notin DOMAIN verifications

\* C8: Missing-field validation. A POST body that is not the two-key update
\* and lacks one of the five required fields is answered 400, naming the
\* first missing field in the order robloxUsername, robloxID,
\* discordUsername, discordID, timeToVerify, and the store is unchanged.
C8_MissingFieldRejected ==
    (IsPost(req) /\ ~TwoKeyShape(req.body) /\ ~FullShape(req.body)) =>
        /\ resp.status = 400
        /\ resp.json.returnCode = 400
        /\ \E i \in 1..Len(RequiredFields) :
              /\ RequiredFields[i] \notin DOMAIN req.body
              /\ \A j \in 1..(i - 1) : RequiredFields[j] \in DOMAIN req.body
              /\ resp.json.response = <<"Missing required field: ", RequiredFields[i]>>
        /\ verifications = before

\* A body lacking robloxID and discordID was rejected naming robloxID, with
\* a record in the store.
C8_Witness ==
    /\ IsPost(req)
    /\ resp.status = 400
    /\ resp.json.response = <<"Missing required field: ", "robloxID">>
    /\ "discordID" \notin DOMAIN req.body
    /\ "robloxUsername" \in DOMAIN req.body
    /\ verifications # EmptyDict

\* C9: Mutual exclusion. Every store operation runs under mutual exclusion
\* over the whole key space: no two requests handled at the same time are
\* both between their first and their last access to the store.
C9_MutualExclusion ==
    \A t \in Threads, u \in Threads :
        (t # u) => ~(BetweenAccesses(t) /\ BetweenAccesses(u))

\* C10: Authentication gate. On the POST, GET and DELETE routes a request
\* whose X-API-Key header and api_key parameter are both absent or wrong is
\* answered 401 and the store is neither read nor modified; health and root
\* answer 200 whatever the request carries.
C10_AuthenticationGate ==
    /\ ( /\ req.route \in {"POST", "GET", "DELETE"}
         /\ req.hdr # Some(API_KEY)
         /\ req.qry # Some(API_KEY) )
       => ( /\ resp.status = 401
            /\ verifications = before
            /\ touched = 0 )
    /\ req.route \in {"ROOT", "HEALTH"}
       => ( /\ resp.status = 200
            /\ verifications = before
            /\ touched = 0 )

\* A GET without any secret, for a username the store holds, was answered 401.
C10_Witness ==
    /\ req.route = "GET"
    /\ req.hdr = NoneVal /\ req.qry = NoneVal
    /\ resp.status = 401
    /\ KeysOf(verifications, req.name) # {}

\* C11: Required fields must be non-empty. A full upsert request in which one
\* of the five required fields is present but empty is rejected as a
\* validation error (400) and creates or overwrites no record.
C11_RequiredNonEmpty ==
    ( /\ IsPost(req) /\ FullShape(req.body)
      /\ \E i \in 1..Len(RequiredFields) :
            EmptyText(RequiredFields[i], req.body[RequiredFields[i]]) )
    => ( /\ resp.status = 400
         /\ verifications = before )

\* C12: Uniqueness invariant. In every reachable state of the store there is
\* at most one record per normalized key, and each record stored under key k
\* has lowercase(robloxUsername) = k and carries all six fields.
C12_UniquenessInvariant ==
    /\ \A k \in DOMAIN verifications, l \in DOMAIN verifications :
          Folds(k, l) => k = l
    /\ \A k \in DOMAIN verifications :
          /\ IsLowerCase(k)
          /\ DOMAIN verifications[k] = SixFields
          /\ Folds(k, verifications[k].robloxUsername)

\* Two records are stored, one of them under a username with an uppercase
\* letter, after an upsert replaced the record of its key.
C12_Witness ==
    /\ Cardinality(DOMAIN verifications) = 2
    /\ IsPost(req) /\ FullShape(req.body) /\ resp.status = 201
    /\ KeysOf(before, req.body.robloxUsername) # {}
    /\ \E k \in DOMAIN verifications :
          /\ verifications[k].robloxUsername = req.body.robloxUsername
          /\ verifications[k].robloxUsername # k
          /\ before[k].robloxUsername # req.body.robloxUsername

\* C13: Not-found is uniform. For two stores that differ only in that a key
\* is absent in one and holds an expired record in the other, a Fetch of that
\* key gets the identical response in both: 404 with the message "Unable to
\* fetch user details".
C13_NotFoundUniform ==
    IsGet(req) =>
        \A k \in KeysOf(before, req.name) :
            Elapsed(before[k].timeToVerify, now) =>
                LET absent == [x \in (DOMAIN before) \ {k} |-> before[x]]
                IN  /\ resp = get_verification(absent, now, req.name).resp
                    /\ resp.status = 404
                    /\ resp.json.response = <<"Unable to fetch user details">>

\* C14: Backend interchangeability. For every sequence of upsert, joinedGame
\* update, get and delete calls, the table of database.py gives the same
\* hit/miss outcomes, the same expiry verdicts and the same record contents,
\* robloxUsername casing after an overwriting upsert included, as the
\* in-memory store of api.py.
C14_BackendInterchangeable ==
    /\ RecordsOfTable(table) = RecordsOfStore(verifications)
    /\ call.op = "upsert" => (call.db <=> call.mem.status = 201)
    /\ call.op = "update" => (call.db <=> call.mem.status = 200)
    /\ call.op = "delete" => (call.db <=> call.mem.status = 200)
    /\ call.op = "get" =>
          /\ (call.db.row # NoneVal /\ ~call.db.expired) <=> call.mem.status = 200
          /\ (call.db.row = NoneVal \/ call.db.expired) <=> call.mem.status = 404
          /\ call.mem.status = 200 => Echo(call.mem) = call.db.row[1]

\* C15: Fetch does not race with Upsert. In every interleaving of a Fetch
\* with a concurrent full Upsert on the same key, the record that the Fetch's
\* delete-on-expiry removes is the very record whose timestamp the Fetch
\* evaluated, and it is one whose expiry instant has passed: a non-expired
\* record that an Upsert wrote before the delete step is never removed.
C15_FetchUpsertNoRace ==
    [][ \A t \in Threads :
          ( /\ handling[t].route = "GET"
            /\ pc[t] = "L145" /\ pc'[t] = "idle"
            /\ KeysOf(verifications, handling[t].name) # {}
            /\ KeysOf(verifications', handling[t].name) = {} )
          => \A k \in KeysOf(verifications, handling[t].name) :
                /\ verifications[k] = locals[t].verification[1]
                /\ Elapsed(verifications[k].timeToVerify, now) ]_vars

\* C16: Lookup-miss is never a fault under concurrency. In every
\* interleaving of Fetch, UpdateJoinedGame and Delete requests handled at the
\* same time on one key, each request ends in a hit or in not-found (200 or
\* 404): a record that another request removed between a request's existence
\* check and its later read, write or delete never surfaces as 500.
C16_LookupMissNeverFault ==
    \A t \in Threads :
        ( /\ pc[t] = "idle"
          /\ replies[t] # NoResponse
          /\ \/ handling[t].route \in {"GET", "DELETE"}
             \/ handling[t].route = "POST" /\ TwoKeyShape(handling[t].body) )
        => replies[t].status \in {200, 404}

\* C17: Expiry comparison is strict. A Fetch treats a record with a parseable
\* timestamp as expired only when the current time is strictly after the
\* parsed instant; when the current time equals or precedes the instant, the
\* Fetch returns the record (200) and leaves the store unchanged.
C17_StrictExpiry ==
    IsGet(req) =>
        \A k \in KeysOf(before, req.name) :
            Instant(before[k].timeToVerify) # NoneVal =>
                /\ (resp.status = 404 \/ verifications # before)
                      => now > Instant(before[k].timeToVerify)[1]
                /\ now <= Instant(before[k].timeToVerify)[1]
                      => /\ resp.status = 200
                         /\ Echo(resp) = before[k]
                         /\ verifications = before

\* C18: Expiry is purely lazy and local. A record leaves the store only
\* through a Delete of its key or a Fetch of its key after its expiry
\* instant; the passage of time, the health and root routes, a Fetch of a
\* non-expired record and any operation on another key leave it unchanged.
C18_LazyLocalExpiry ==
    [][ \A k \in DOMAIN verifications :
          LET record == verifications[k]
              onKey  == /\ req'.route \in {"POST", "GET", "DELETE"}
                        /\ WithKey(req') \/ req'.qry = Some(API_KEY)
                        /\ Folds(k, IF req'.route = "POST" THEN req'.body.robloxUsername
                                    ELSE req'.name)
          IN  /\ k \notin DOMAIN verifications'
                    => /\ onKey
                       /\ \/ req'.route = "DELETE"
                          \/ /\ req'.route = "GET"
                             /\ Elapsed(record.timeToVerify, now)
              /\ (k \in DOMAIN verifications' /\ verifications'[k] # record)
                    => (onKey /\ req'.route = "POST") ]_vars

\* A Fetch of an expired record removed it while the record of another key
\* stayed as it was.
C18_Witness ==
    /\ IsGet(req) /\ resp.status = 404
    /\ \E k \in KeysOf(before, req.name) :
          Elapsed(before[k].timeToVerify, now) /\ k \notin DOMAIN verifications
    /\ \E l \in DOMAIN verifications : l \in DOMAIN before /\ verifications[l] = before[l]

\* C19: UpdateJoinedGame and Delete do not evaluate expiry. On a record whose
\* expiry instant has passed, a joinedGame-only update still answers 200 and
\* sets joinedGame, and a Delete still answers 200 and removes the record;
\* of the requests on such a record only a Fetch answers not-found.
C19_UpdateDeleteIgnoreExpiry ==
    (IsPost(req) /\ TwoKeyShape(req.body)) \/ IsDelete(req) \/ IsGet(req) =>
        LET name == IF req.route = "POST" THEN req.body.robloxUsername ELSE req.name
        IN  \A k \in KeysOf(before, name) :
                Elapsed(before[k].timeToVerify, now) =>
                    /\ IsPost(req) =>
                          /\ resp.status = 200
                          /\ verifications[k].joinedGame = req.body.joinedGame
                    /\ IsDelete(req) =>
                          /\ resp.status = 200
                          /\ k \notin DOMAIN verifications
                    /\ resp.status = 404 => IsGet(req)

\* A joinedGame-only update flipped joinedGame of a record whose expiry
\* instant had passed.
C19_Witness ==
    /\ IsPost(req) /\ TwoKeyShape(req.body)
    /\ resp.status = 200
    /\ \E k \in KeysOf(before, req.body.robloxUsername) :
          /\ Elapsed(before[k].timeToVerify, now)
          /\ before[k].joinedGame # req.body.joinedGame
          /\ verifications[k].joinedGame = req.body.joinedGame

\* C20: Fetch never returns a stale record. With serial requests and a clock
\* that never goes back, no Fetch returns (200) a record at a time strictly
\* after the expiry instant of its numeric or offset-free ISO-8601 timestamp;
\* a Fetch that answers not-found leaves no record under the key, and while
\* no full Upsert on that key occurs the key stays without a record and every
\* Fetch of it answers not-found.
C20_NoStaleFetch ==
    [][ /\ now' >= now
        /\ (req'.route = "GET" /\ resp'.status = 200) =>
              \A k \in KeysOf(verifications, req'.name) :
                  verifications[k].timeToVerify \in {TimeUnix, TimeIso}
                      => ~Elapsed(verifications[k].timeToVerify, now')
        /\ (req'.route = "GET" /\ resp'.status = 404) => KeysOf(verifications', req'.name) = {}
        /\ \A name \in LookupNames :
              (KeysOf(verifications, name) = {} /\ ~FullUpsertOn(req', resp', name)) =>
                  /\ KeysOf(verifications', name) = {}
                  /\ (IsGet(req') /\ Folds(req'.name, name)) => resp'.status = 404 ]_vars

\* A Fetch of a record with an offset-free ISO-8601 timestamp, after its
\* instant, answered not-found and left the key without a record.
C20_Witness ==
    /\ IsGet(req) /\ resp.status = 404
    /\ \E k \in KeysOf(before, req.name) :
          /\ before[k].timeToVerify = TimeIso
          /\ Elapsed(TimeIso, now)
    /\ KeysOf(verifications, req.name) = {}

====
